---- MODULE Spec2Model ----
(***************************************************************************)
(* Model of miura: the polynomial arithmetic (src/miura/src/poly.rs and    *)
(* src/miura/src/vec_helper.rs, specification Spec), the permutations      *)
(* (src/miura/src/permutation.rs, specifications SpecPerm and              *)
(* SpecPermFair) and the sorting functions (src/miura/src/sorting.rs,      *)
(* specification SpecSort).  The three programs share nothing but the      *)
(* helpers of vec_helper.rs; each specification leaves the variables of    *)
(* the other two at their initial values.                                  *)
(*                                                                         *)
(* Polynomials.                                                            *)
(* A caller builds at most two polynomials with IntPoly::new (the bindings *)
(* poly[1] and poly[2]) and then calls the operations of the module on     *)
(* them.  Every call is recorded in res together with its inputs and its   *)
(* outcome; the caller drops the outcome of a call (Forget) before it      *)
(* makes the next one.  A Rust panic ends the program: aborted becomes     *)
(* TRUE and no further call is made.                                       *)
(*                                                                         *)
(* The operations take their operands by shared reference and read nothing *)
(* else, so a call is made once, at the point where the polynomials bound  *)
(* so far are exactly its operands (Ready): zero_polynomial and            *)
(* one_polynomial before poly[1] is bound, the calls on poly[1] alone      *)
(* before poly[2] is bound, the calls on both afterwards.  Making a call   *)
(* later, with more polynomials bound, could not change its outcome.       *)
(*                                                                         *)
(* Vectors are 1-based sequences here, 0-based in the source: the          *)
(* coefficient of X^i is coefficients[i + 1].  Coefficients are i32 in the *)
(* source; the bounds below keep every intermediate value far inside the   *)
(* i32 range, so neither the wrapping nor the overflow-panic build         *)
(* behaviour is reachable and plain integer arithmetic is exact.           *)
(*                                                                         *)
(* Permutations.  A caller binds one permutation sigma with                *)
(* Permutation::new and calls inverse, compose and to_cycle_form on it;    *)
(* identity and transposition are called before sigma is bound.            *)
(* to_cycle_form runs as a sequence of steps, one per test of its for and  *)
(* while loops, so that its termination is a property of the behaviours.   *)
(*                                                                         *)
(* Sorting.  A caller holds one vector of numbers and calls the four       *)
(* sorting functions on it; insertion_sort sorts it in place.  u32 is      *)
(* modelled by the word 0 .. MaxU32, in which s + 1 overflows at MaxU32.   *)
(***************************************************************************)
EXTENDS Integers, Sequences, FiniteSets, TLC

\* ------------------------------------------------------------------ bounds
\* longest coefficient vector handed to IntPoly::new
MaxLen == 2
\* coefficients handed to IntPoly::new are drawn from -1 .. MaxCoeff
MaxCoeff == 1
\* largest modulus q of a ring Z/qZ (the moduli are 2 .. MaxMod)
MaxMod == 3
\* longest list handed to sum_of_polys / product_of_polys
MaxList == 2
\* largest exponent handed to poly_power
MaxExp == 2
\* longest image vector handed to Permutation::new, largest n handed to
\* identity and transposition; the images are drawn from 0 .. MaxN + 1
MaxN == 3
\* longest vector handed to the sorting functions
MaxSortLen == 3
\* the largest value of the unsigned word that stands for u32: the elements
\* to sort and the bound s of counting_sort are drawn from 0 .. MaxU32, and
\* s + 1 overflows at s = MaxU32 as it does at u32::MAX
MaxU32 == 3

\* ------------------------------------------------------------ Modulus
\* enum Modulus { Some(i32), None }
None == [tag |-> "None", q |-> 0]

Some(x) == [tag |-> "Some", q |-> x]

\* the rings of the model: Z and Z/qZ for q in 2 .. MaxMod
Moduli == {None} \cup {Some(x) : x \in 2..MaxMod}

Coeffs == (0 - 1)..MaxCoeff

RECURSIVE SeqsUpTo(_, _)
SeqsUpTo(S, n) ==
    IF n = 0 THEN {<<>>}
    ELSE LET shorter == SeqsUpTo(S, n - 1)
         IN  shorter \cup {Append(s, x) : s \in {t \in shorter : Len(t) = n - 1}, x \in S}

CoeffVecs == SeqsUpTo(Coeffs, MaxLen)

\* ------------------------------------------------------ i32 arithmetic
\* Rust's % on i32 with a positive divisor: the truncating remainder, which
\* carries the sign of the dividend.
Rem(a, x) == IF a >= 0 THEN a % x ELSE 0 - ((0 - a) % x)

Max(a, b) == IF a >= b THEN a ELSE b

\* ------------------------------------------------------------ vec_helper
Pop(vec) == SubSeq(vec, 1, Len(vec) - 1)

\* remove_trailing_zeros with `if` in place of `while`: at most one element
\* is popped
remove_trailing_zeros_once(vec, modulus) ==
    LET n == Len(vec) IN
    IF n > 0 /\ modulus = None /\ vec[n] = 0
    THEN [panic |-> FALSE, vec |-> Pop(vec)]
    ELSE IF modulus.tag = "Some"
         THEN IF n = 0 \/ modulus.q = 0
              THEN [panic |-> TRUE, vec |-> vec]
              ELSE IF Rem(vec[n], modulus.q) = 0
                   THEN [panic |-> FALSE, vec |-> Pop(vec)]
                   ELSE [panic |-> FALSE, vec |-> vec]
         ELSE [panic |-> FALSE, vec |-> vec]

\* remove_trailing_zeros(vec, modulus): the while loop, one iteration per
\* unfolding.  The loop condition is
\*     (vec.len() > 0 && (modulus == None && vec[n-1] == 0)) || { Some-block }
\* because && binds tighter than ||: the Some-block indexes vec[n-1] without
\* the length test, and panics when n = 0 (also x = 0 panics in %).
\* The outcome is the vector as the loop leaves it and whether it panicked.
RECURSIVE remove_trailing_zeros(_, _)
remove_trailing_zeros(vec, modulus) ==
    LET n == Len(vec) IN
    IF n > 0 /\ modulus = None /\ vec[n] = 0
    THEN remove_trailing_zeros(Pop(vec), modulus)
    ELSE IF modulus.tag = "Some"
         THEN IF n = 0 \/ modulus.q = 0
              THEN [panic |-> TRUE, vec |-> vec]
              ELSE IF Rem(vec[n], modulus.q) = 0
                   THEN remove_trailing_zeros(Pop(vec), modulus)
                   ELSE [panic |-> FALSE, vec |-> vec]
         ELSE [panic |-> FALSE, vec |-> vec]

\* shift_vector(vec, amt): amt zeros, then vec
shift_vector(vec, amt) == [i \in 1..amt |-> 0] \o vec

\* scale_vector(vec, amt): every entry multiplied by amt
scale_vector(vec, amt) == [i \in 1..Len(vec) |-> amt * vec[i]]

\* ------------------------------------------------------------ outcomes
\* A polynomial value: struct IntPoly { coefficients, modulus }
Poly(c, m) == [coefficients |-> c, modulus |-> m]

\* placeholder in the poly field of an outcome that carries no polynomial
NoPoly == Poly(<<>>, None)

NoErr == <<None, None>>

\* Ok(p) resp. a plain IntPoly return value
Ok(p) == [kind |-> "Ok", poly |-> p, err |-> NoErr]

\* Err(PolynomialError::ModulusMismatchError(m1, m2))
Err(m1, m2) == [kind |-> "Err", poly |-> NoPoly, err |-> <<m1, m2>>]

\* the call panicked: nothing is returned
Panic == [kind |-> "Panic", poly |-> NoPoly, err |-> NoErr]

\* ------------------------------------------------------------ IntPoly
\* IntPoly::new trimming a copy of coeff: the caller's vector stays as it was
IntPoly_new_trims_copy(coeff, md) ==
    LET t == remove_trailing_zeros(coeff, md) IN
    IF t.panic THEN [out |-> Panic, vec |-> coeff]
    ELSE [out |-> Ok(Poly(t.vec, md)), vec |-> coeff]

\* IntPoly::new(coeff, md): trims coeff in place, then copies it.
\* vec is the caller's vector as the call leaves it.
IntPoly_new(coeff, md) ==
    LET t == remove_trailing_zeros(coeff, md) IN
    IF t.panic THEN [out |-> Panic, vec |-> t.vec]
    ELSE [out |-> Ok(Poly(t.vec, md)), vec |-> t.vec]

\* coefficient reducing to the representative system {0, ..., q-1}
coefficient_nonneg(self, exponent) ==
    IF Len(self.coefficients) = 0 THEN 0
    ELSE IF exponent > Len(self.coefficients) - 1 THEN 0
    ELSE IF self.modulus.tag = "Some"
         THEN self.coefficients[exponent + 1] % self.modulus.q
         ELSE self.coefficients[exponent + 1]

\* IntPoly::coefficient(self, exponent)
coefficient(self, exponent) ==
    IF Len(self.coefficients) = 0 THEN 0
    ELSE IF exponent > Len(self.coefficients) - 1 THEN 0
    ELSE IF self.modulus.tag = "Some"
         THEN Rem(self.coefficients[exponent + 1], self.modulus.q)
         ELSE self.coefficients[exponent + 1]

\* IntPoly::deg(self)
deg(self) ==
    IF Len(self.coefficients) = 0 THEN 0 - 1 ELSE Len(self.coefficients) - 1

\* scale building its result with Modulus::None
scale_drops_modulus(self, scale_factor) ==
    IntPoly_new(scale_vector(self.coefficients, scale_factor), None).out

\* IntPoly::scale(self, scale_factor)
scale(self, scale_factor) ==
    IntPoly_new(scale_vector(self.coefficients, scale_factor), self.modulus).out

\* IntPoly::additive_inverse(self)
additive_inverse(self) == scale(self, 0 - 1)

\* the monomial "a_iX^i" pushed by to_string; i is the 0-based exponent
monomial(a_i, i) == ToString(a_i) \o "X^" \o ToString(i)

\* to_string pushing the monomial of every stored coefficient, zero or not
to_string_every_term(self) ==
    LET n == Len(self.coefficients)
        pushed(k) == monomial(self.coefficients[k], k - 1)
        upto[k \in 0..n] ==
            IF k = 0 THEN ""
            ELSE IF k < n THEN upto[k - 1] \o pushed(k) \o " + "
            ELSE upto[k - 1] \o pushed(k)
    IN  IF n = 0 THEN "0" ELSE upto[n]

\* IntPoly::to_string(self): the loop pushes the monomial of a_i when
\* a_i != 0, and " + " in every iteration; the last three characters, the
\* " + " of the last iteration, are then cut
to_string(self) ==
    LET n == Len(self.coefficients)
        pushed(k) == IF self.coefficients[k] # 0
                     THEN monomial(self.coefficients[k], k - 1)
                     ELSE ""
        upto[k \in 0..n] ==
            IF k = 0 THEN ""
            ELSE IF k < n THEN upto[k - 1] \o pushed(k) \o " + "
            ELSE upto[k - 1] \o pushed(k)
    IN  IF n = 0 THEN "0" ELSE upto[n]

\* zero_polynomial(md)
zero_polynomial(md) == IntPoly_new(<<>>, md).out

\* one_polynomial(md)
one_polynomial(md) == IntPoly_new(<<1>>, md).out

\* ------------------------------------------------------ free functions
\* add_poly comparing the moduli by variant only, not by the wrapped value
add_poly_variant_only(poly1, poly2) ==
    IF poly1.modulus.tag # poly2.modulus.tag
    THEN Err(poly1.modulus, poly2.modulus)
    ELSE LET result_len == Max(Len(poly1.coefficients), Len(poly2.coefficients))
             result_coeffs == [i \in 1..result_len |->
                                 coefficient(poly1, i - 1) + coefficient(poly2, i - 1)]
             t == remove_trailing_zeros(result_coeffs, poly1.modulus)
         IN  IF t.panic THEN Panic
             ELSE IntPoly_new(t.vec, poly1.modulus).out

\* add_poly(poly1, poly2)
add_poly(poly1, poly2) ==
    IF poly1.modulus # poly2.modulus
    THEN Err(poly1.modulus, poly2.modulus)
    ELSE LET result_len == Max(Len(poly1.coefficients), Len(poly2.coefficients))
             result_coeffs == [i \in 1..result_len |->
                                 coefficient(poly1, i - 1) + coefficient(poly2, i - 1)]
             t == remove_trailing_zeros(result_coeffs, poly1.modulus)
         IN  IF t.panic THEN Panic
             ELSE IntPoly_new(t.vec, poly1.modulus).out

\* the loop of sum_of_polys leaving after its first iteration
sum_loop_first_only(result, poly_vec, k) ==
    IF k > Len(poly_vec) THEN Ok(result)
    ELSE add_poly(result, poly_vec[k])

\* the for loop of sum_of_polys: result = add_poly(&result, poly)? for the
\* elements k, k+1, ... of poly_vec; an Err or a panic ends the loop
RECURSIVE sum_loop(_, _, _)
sum_loop(result, poly_vec, k) ==
    IF k > Len(poly_vec) THEN Ok(result)
    ELSE LET r == add_poly(result, poly_vec[k]) IN
         IF r.kind = "Ok" THEN sum_loop(r.poly, poly_vec, k + 1) ELSE r

\* sum_of_polys without the test for the empty list: poly_vec[0] is indexed
\* at once
sum_of_polys_no_empty_case(poly_vec) ==
    IF Len(poly_vec) = 0 THEN Panic
    ELSE LET z == zero_polynomial(poly_vec[1].modulus) IN
         IF z.kind = "Ok" THEN sum_loop(z.poly, poly_vec, 1) ELSE z

\* sum_of_polys(poly_vec)
sum_of_polys(poly_vec) ==
    IF Len(poly_vec) = 0 THEN zero_polynomial(None)
    ELSE LET z == zero_polynomial(poly_vec[1].modulus) IN
         IF z.kind = "Ok" THEN sum_loop(z.poly, poly_vec, 1) ELSE z

\* subtract_poly(poly1, poly2): the argument poly2.additive_inverse() is
\* evaluated before add_poly is entered
subtract_poly(poly1, poly2) ==
    LET inv == additive_inverse(poly2) IN
    IF inv.kind = "Ok" THEN add_poly(poly1, inv.poly) ELSE inv

\* the partial product pushed in iteration i of the loop of multiply_poly
partial_product(poly1, poly2, i) ==
    IntPoly_new(scale_vector(shift_vector(poly2.coefficients, i),
                             coefficient(poly1, i)),
                poly1.modulus).out

\* multiply_poly with the loop 0..poly1.deg(): the partial product of the
\* leading term is left out
multiply_poly_short_loop(poly1, poly2) ==
    IF poly1.modulus # poly2.modulus
    THEN Err(poly1.modulus, poly2.modulus)
    ELSE LET m == deg(poly1)
             parts == [i \in 1..m |-> partial_product(poly1, poly2, i - 1)]
         IN  IF \E i \in 1..m : parts[i].kind = "Panic" THEN Panic
             ELSE sum_of_polys([i \in 1..m |-> parts[i].poly])

\* multiply_poly(poly1, poly2)
multiply_poly(poly1, poly2) ==
    IF poly1.modulus # poly2.modulus
    THEN Err(poly1.modulus, poly2.modulus)
    ELSE LET m == deg(poly1) + 1
             parts == [i \in 1..m |-> partial_product(poly1, poly2, i - 1)]
         IN  IF \E i \in 1..m : parts[i].kind = "Panic" THEN Panic
             ELSE sum_of_polys([i \in 1..m |-> parts[i].poly])

\* the for loop of product_of_polys: result = multiply_poly(&result, poly)?
RECURSIVE product_loop(_, _, _)
product_loop(result, poly_vec, k) ==
    IF k > Len(poly_vec) THEN Ok(result)
    ELSE LET r == multiply_poly(result, poly_vec[k]) IN
         IF r.kind = "Ok" THEN product_loop(r.poly, poly_vec, k + 1) ELSE r

\* product_of_polys returning the zero polynomial for the empty list
product_of_polys_empty_zero(poly_vec) ==
    IF Len(poly_vec) = 0 THEN zero_polynomial(None)
    ELSE LET o == one_polynomial(poly_vec[1].modulus) IN
         IF o.kind = "Ok" THEN product_loop(o.poly, poly_vec, 1) ELSE o

\* product_of_polys(poly_vec)
product_of_polys(poly_vec) ==
    IF Len(poly_vec) = 0 THEN one_polynomial(None)
    ELSE LET o == one_polynomial(poly_vec[1].modulus) IN
         IF o.kind = "Ok" THEN product_loop(o.poly, poly_vec, 1) ELSE o

\* poly_power without the special case of the exponent 0
poly_power_no_special_case(poly, exponent) ==
    product_of_polys([i \in 1..exponent |-> poly])

\* poly_power(poly, exponent)
poly_power(poly, exponent) ==
    IF exponent = 0 THEN one_polynomial(poly.modulus)
    ELSE product_of_polys([i \in 1..exponent |-> poly])

\* ------------------------------------------------------------ permutation
\* A Permutation is modelled by its only field, the vector images; entry k
\* (1-based here) is the image of k.
\* outcomes of the functions that return a Permutation or a Result of one
POk(images) == [kind |-> "Ok", images |-> images, err |-> "none"]

PErr(e) == [kind |-> "Err", images |-> <<>>, err |-> e]

PPanic == [kind |-> "Panic", images |-> <<>>, err |-> "none"]

\* the vectors of images handed to Permutation::new
ImageVecs == SeqsUpTo(0..(MaxN + 1), MaxN)

\* the loop of check_unique_in_1_to_n from element k on; occured_numbers
\* holds the elements seen before
RECURSIVE check_unique_loop(_, _, _, _)
check_unique_loop(v, n, k, occured_numbers) ==
    IF k > Len(v) THEN TRUE
    ELSE IF v[k] \in occured_numbers THEN FALSE
    ELSE IF 1 <= v[k] /\ v[k] <= n
         THEN check_unique_loop(v, n, k + 1, occured_numbers \cup {v[k]})
         ELSE FALSE

\* check_unique_in_1_to_n without the test for a number seen before
check_unique_in_1_to_n_range_only(v, n) ==
    \A k \in 1..Len(v) : 1 <= v[k] /\ v[k] <= n

\* check_unique_in_1_to_n(vec, n)
check_unique_in_1_to_n(v, n) == check_unique_loop(v, n, 1, {})

\* Permutation::new(vec)
Permutation_new(v) ==
    IF Len(v) = 0 THEN PErr("EmptyImageVectorError")
    ELSE IF ~check_unique_in_1_to_n(v, Len(v)) THEN PErr("NotBijectiveError")
    ELSE POk(v)

\* Permutation::eval(self, i): Ok(images[i - 1]) or Err(ArgOutOfRangeError)
eval(images, i) ==
    IF i > Len(images) \/ i <= 0
    THEN [kind |-> "Err", val |-> 0]
    ELSE [kind |-> "Ok", val |-> images[i]]

\* the loops of inverse with the 0-based index j pushed in place of j + 1
RECURSIVE inverse_images_zero_based(_, _)
inverse_images_zero_based(images, i) ==
    IF i > Len(images) THEN <<>>
    ELSE LET found == {j \in 1..Len(images) : images[j] = i}
         IN  (IF found = {} THEN <<>>
              ELSE <<(CHOOSE j \in found : \A h \in found : j <= h) - 1>>)
             \o inverse_images_zero_based(images, i + 1)

\* the loops of inverse from i on: for every i the first index j with
\* images[j] = i is pushed as j + 1 (0-based j in the source, so the 1-based
\* index here); nothing is pushed when there is no such j
RECURSIVE inverse_images(_, _)
inverse_images(images, i) ==
    IF i > Len(images) THEN <<>>
    ELSE LET found == {j \in 1..Len(images) : images[j] = i}
         IN  (IF found = {} THEN <<>>
              ELSE <<CHOOSE j \in found : \A h \in found : j <= h>>)
             \o inverse_images(images, i + 1)

\* Permutation::inverse(self): Permutation::new(inverse_images).unwrap()
inverse(images) ==
    LET r == Permutation_new(inverse_images(images, 1)) IN
    IF r.kind = "Ok" THEN r ELSE PPanic

\* Cycle::new(vec, n)
Cycle_new(v, n) ==
    IF check_unique_in_1_to_n(v, n) THEN POk(v) ELSE PErr("NoValidCycleError")

\* identity(n)
identity(n) ==
    IF n = 0 THEN PErr("EmptyImageVectorError")
    ELSE Permutation_new([x \in 1..n |-> x])

\* transposition(n, i, j)
transposition(n, i, j) ==
    IF i = j THEN identity(n)
    ELSE Permutation_new([x \in 1..n |-> IF x = i THEN j ELSE IF x = j THEN i ELSE x])

\* compose(sigma, tau): the image of x is sigma.eval(tau.eval(x).unwrap())
\* .unwrap(); an unwrap of an Err panics
compose(sigma, tau) ==
    LET n == Len(sigma) IN
    IF n # Len(tau) THEN PErr("DomainRangeSizeMismatchError")
    ELSE LET inner == [x \in 1..n |-> eval(tau, x)]
             outer == [x \in 1..n |->
                         IF inner[x].kind = "Ok" THEN eval(sigma, inner[x].val)
                         ELSE inner[x]]
         IN  IF \E x \in 1..n : outer[x].kind # "Ok" THEN PPanic
             ELSE Permutation_new([x \in 1..n |-> outer[x].val])

\* the locals of to_cycle_form when the for loop is entered
to_cycle_form_entry ==
    [pc |-> "for", i |-> 1, cycles |-> <<>>, nums_in_cycles |-> {},
     current_cycle_elements |-> <<>>, current |-> 0]

\* the head of the for loop without the test !nums_in_cycles.contains(&i)
to_cycle_form_for_every_i(l, images) ==
    IF l.i > Len(images) THEN [l EXCEPT !.pc = "done"]
    ELSE LET e == eval(images, l.i) IN
         IF e.kind # "Ok" THEN [l EXCEPT !.pc = "panic"]
         ELSE [l EXCEPT !.pc = "while",
                        !.current_cycle_elements = <<l.i>>,
                        !.nums_in_cycles = @ \cup {l.i},
                        !.current = e.val]

\* to_cycle_form, the head of the for loop over i in 1..(n+1): the loop ends,
\* or a cycle is started at i, or i is passed over
to_cycle_form_for(l, images) ==
    IF l.i > Len(images) THEN [l EXCEPT !.pc = "done"]
    ELSE IF l.i \notin l.nums_in_cycles
    THEN LET e == eval(images, l.i) IN
         IF e.kind # "Ok" THEN [l EXCEPT !.pc = "panic"]
         ELSE [l EXCEPT !.pc = "while",
                        !.current_cycle_elements = <<l.i>>,
                        !.nums_in_cycles = @ \cup {l.i},
                        !.current = e.val]
    ELSE [l EXCEPT !.i = @ + 1]

\* to_cycle_form, one test of `while current != i`: the body of the while
\* loop, or the push of the completed cycle and the next i
to_cycle_form_while(l, images) ==
    IF l.current # l.i
    THEN LET e == eval(images, l.current) IN
         IF e.kind # "Ok" THEN [l EXCEPT !.pc = "panic"]
         ELSE [l EXCEPT !.current_cycle_elements = Append(@, l.current),
                        !.nums_in_cycles = @ \cup {l.current},
                        !.current = e.val]
    ELSE LET c == Cycle_new(l.current_cycle_elements, Len(images)) IN
         IF c.kind # "Ok" THEN [l EXCEPT !.pc = "panic"]
         ELSE [l EXCEPT !.pc = "for",
                        !.cycles = Append(@, c.images),
                        !.i = @ + 1]

\* ---------------------------------------------------------------- sorting
\* outcomes of the sorting functions
SOk(v) == [kind |-> "Ok", vec |-> v]

SErr == [kind |-> "Err", vec |-> <<>>]

SPanic == [kind |-> "Panic", vec |-> <<>>]

\* the vectors handed to the sorting functions
SortVecs == SeqsUpTo(0..MaxU32, MaxSortLen)

\* insertion_sort, the while loop for the saved key, entered with the
\* 0-based index i (a[i] is v[i + 1] here); `i >= 0` holds of every usize.
\* In the special case i = 0 the outer loop is continued at once.
RECURSIVE insertion_while(_, _, _)
insertion_while(v, key, i) ==
    IF v[i + 1] > key
    THEN LET moved == [v EXCEPT ![i + 2] = v[i + 1]] IN
         IF i > 0 THEN insertion_while(moved, key, i - 1)
         ELSE IF moved[1] > key
              THEN [[moved EXCEPT ![2] = moved[1]] EXCEPT ![1] = key]
              ELSE [moved EXCEPT ![2] = key]
    ELSE [v EXCEPT ![i + 2] = key]

\* insertion_sort, the outer loop for j, j + 1, ..., a.len() - 1
RECURSIVE insertion_for(_, _)
insertion_for(v, j) ==
    IF j >= Len(v) THEN v
    ELSE insertion_for(insertion_while(v, v[j + 1], j - 1), j + 1)

\* insertion_sort(a): the vector a as the call leaves it
insertion_sort(v) == insertion_for(v, 1)

\* merge, the while loop and the two for loops after it; the cursors are
\* 0-based
RECURSIVE merge_loop(_, _, _, _, _)
merge_loop(left, right, left_current, right_current, result) ==
    IF left_current <= Len(left) - 1 /\ right_current <= Len(right) - 1
    THEN IF left[left_current + 1] <= right[right_current + 1]
         THEN merge_loop(left, right, left_current + 1, right_current,
                         Append(result, left[left_current + 1]))
         ELSE merge_loop(left, right, left_current, right_current + 1,
                         Append(result, right[right_current + 1]))
    ELSE result \o SubSeq(left, left_current + 1, Len(left))
                \o SubSeq(right, right_current + 1, Len(right))

\* merge(left, right).  With an empty vector len() - 1 underflows: the build
\* with overflow checks panics at the subtraction, the wrapping build finds
\* the loop condition true and panics at the index 0 of the empty vector.
merge(left, right) ==
    IF Len(left) = 0 \/ Len(right) = 0 THEN SPanic
    ELSE SOk(merge_loop(left, right, 0, 0, <<>>))

\* merge_sort(a)
RECURSIVE merge_sort(_)
merge_sort(v) ==
    IF Len(v) <= 1 THEN SOk(v)
    ELSE LET m == Len(v) \div 2
             l == merge_sort(SubSeq(v, 1, m))
             r == merge_sort(SubSeq(v, m + 1, Len(v)))
         IN  IF l.kind # "Ok" THEN l
             ELSE IF r.kind # "Ok" THEN r
             ELSE merge(l.vec, r.vec)

\* quicksort(a)
RECURSIVE quicksort(_)
quicksort(v) ==
    IF Len(v) <= 1 THEN v
    ELSE LET pivot == v[1]
             rest == Tail(v)
             left == SelectSeq(rest, LAMBDA x : x <= pivot)
             right == SelectSeq(rest, LAMBDA x : x > pivot)
         IN  quicksort(left) \o <<pivot>> \o quicksort(right)

\* counting_sort, the loop that fills the result for i, i + 1, ..., last:
\* as many copies of i as a holds
RECURSIVE counting_fill(_, _, _)
counting_fill(v, i, last) ==
    IF i > last THEN <<>>
    ELSE [k \in 1..Cardinality({h \in 1..Len(v) : v[h] = i}) |-> i]
         \o counting_fill(v, i + 1, last)

\* counting_sort(a, s).  The range 0..(s+1) is computed in the word: at
\* s = MaxU32 the build with overflow checks panics (wraps = FALSE) and the
\* wrapping build gets s + 1 = 0, an empty range (wraps = TRUE).
counting_sort(v, s, wraps) ==
    IF \E k \in 1..Len(v) : v[k] > s THEN SErr
    ELSE IF s + 1 > MaxU32 /\ ~wraps THEN SPanic
    ELSE SOk(counting_fill(v, 0, ((s + 1) % (MaxU32 + 1)) - 1))

\* ---------------------------------------------------------------- state
VARIABLES
    poly,      \* poly[i]: the polynomial bound by the caller's i-th IntPoly::new
    built,     \* the i whose IntPoly::new has returned
    res,       \* the last call: operation, inputs and outcome
    aborted,   \* a call has panicked
    sigma,     \* the images of the permutation the caller has bound; <<>>: none
    vector,    \* the caller's vector of numbers to sort
    ret        \* the last call on permutations or vectors, and its locals

vars == <<poly, built, res, aborted, sigma, vector, ret>>

\* the record of a call.  out: the outcome of a call that returns an IntPoly
\* or a Result; val: the i32 a call returns; arg: its integer argument;
\* sel: the list argument, as indices into poly; vecIn, mdIn: the arguments
\* of IntPoly::new; vecOut: the caller's vector after IntPoly::new; str: the
\* String a call returns
Call(op, out, val, arg, sel, vecIn, mdIn, vecOut) ==
    [op |-> op, out |-> out, val |-> val, arg |-> arg, sel |-> sel,
     vecIn |-> vecIn, mdIn |-> mdIn, vecOut |-> vecOut, str |-> ""]

\* a call that returns an IntPoly or a Result, on the bound polynomials
PolyCall(op, out, arg, sel) == Call(op, out, 0, arg, sel, <<>>, None, <<>>)

\* a call that returns an i32
ValCall(op, val, arg) == Call(op, Ok(NoPoly), val, arg, <<>>, <<>>, None, <<>>)

\* no call is pending
NoCall == Call("none", Ok(NoPoly), 0, 0, <<>>, <<>>, None, <<>>)

\* a call that returns a String
StrCall(op, str) == [NoCall EXCEPT !.op = op, !.str = str]

\* the record of a call on permutations or vectors.  arg: its vector
\* argument(s); s: its integer argument; out: its outcome; loc: the locals of
\* a running to_cycle_form
Ret(op, arg, s, out, loc) == [op |-> op, arg |-> arg, s |-> s, out |-> out, loc |-> loc]

\* no such call is pending
NoRet == Ret("none", <<>>, 0, POk(<<>>), to_cycle_form_entry)

\* the program that works on polynomials
Init ==
    /\ poly = [i \in 1..2 |-> NoPoly]
    /\ built = {}
    /\ res = NoCall
    /\ aborted = FALSE
    /\ sigma = <<>>
    /\ vector = <<>>
    /\ ret = NoRet

\* the caller is between two statements: the program runs and the outcome
\* of the last call, if any, has been bound or dropped
Idle == ~aborted /\ res.op = "none"

\* the caller is between two statements and the polynomials bound so far
\* are exactly the operands of the next call
Ready(operands) == Idle /\ built = operands

\* the statement of the last call ends: its temporaries go out of scope
Forget ==
    /\ ~aborted
    /\ res.op # "none"
    /\ res' = NoCall
    /\ UNCHANGED <<poly, built, aborted, sigma, vector, ret>>

\* the call returns or panics; the bound polynomials are not touched
Returns(call) ==
    /\ res' = call
    /\ aborted' = (call.out.kind = "Panic")
    /\ UNCHANGED <<poly, built, sigma, vector, ret>>

\* let poly_i = IntPoly::new(&mut coeff, md); poly_1 is bound first
New ==
    /\ Idle
    /\ Cardinality(built) < 2
    /\ \E coeff \in CoeffVecs, md \in Moduli :
         LET i == Cardinality(built) + 1
             n == IntPoly_new(coeff, md)
         IN  /\ res' = Call("new", n.out, 0, i, <<>>, coeff, md, n.vec)
             /\ aborted' = (n.out.kind = "Panic")
             /\ poly' = IF n.out.kind = "Ok" THEN [poly EXCEPT ![i] = n.out.poly] ELSE poly
             /\ built' = IF n.out.kind = "Ok" THEN built \cup {i} ELSE built
             /\ UNCHANGED <<sigma, vector, ret>>

\* poly_1.coefficient(exponent)
Coefficient ==
    /\ Ready({1})
    /\ \E exponent \in 0..MaxLen :
         Returns(ValCall("coefficient", coefficient(poly[1], exponent), exponent))

\* poly_1.deg()
Deg ==
    /\ Ready({1})
    /\ Returns(ValCall("deg", deg(poly[1]), 0))

\* poly_1.scale(scale_factor)
Scale ==
    /\ Ready({1})
    /\ \E scale_factor \in Coeffs :
         Returns(PolyCall("scale", scale(poly[1], scale_factor), scale_factor, <<>>))

\* poly_1.additive_inverse()
AdditiveInverse ==
    /\ Ready({1})
    /\ Returns(PolyCall("additive_inverse", additive_inverse(poly[1]), 0, <<>>))

\* add_poly(&poly_1, &poly_2)
AddPoly ==
    /\ Ready({1, 2})
    /\ Returns(PolyCall("add_poly", add_poly(poly[1], poly[2]), 0, <<>>))

\* subtract_poly(&poly_1, &poly_2)
SubtractPoly ==
    /\ Ready({1, 2})
    /\ Returns(PolyCall("subtract_poly", subtract_poly(poly[1], poly[2]), 0, <<>>))

\* multiply_poly(&poly_1, &poly_2)
MultiplyPoly ==
    /\ Ready({1, 2})
    /\ Returns(PolyCall("multiply_poly", multiply_poly(poly[1], poly[2]), 0, <<>>))

\* the list of polynomials a list of indices selects
PolyVec(sel) == [k \in 1..Len(sel) |-> poly[sel[k]]]

\* the lists of at most MaxList elements in which every bound polynomial
\* occurs
PolyLists ==
    {sel \in SeqsUpTo(built, MaxList) : {sel[k] : k \in 1..Len(sel)} = built}

\* sum_of_polys(&vec![poly_sel[1], ...])
SumOfPolys ==
    /\ Idle
    /\ \E sel \in PolyLists :
         Returns(PolyCall("sum_of_polys", sum_of_polys(PolyVec(sel)), 0, sel))

\* product_of_polys(&vec![poly_sel[1], ...])
ProductOfPolys ==
    /\ Idle
    /\ \E sel \in PolyLists :
         Returns(PolyCall("product_of_polys", product_of_polys(PolyVec(sel)), 0, sel))

\* poly_power(&poly_1, exponent)
PolyPower ==
    /\ Ready({1})
    /\ \E exponent \in 0..MaxExp :
         Returns(PolyCall("poly_power", poly_power(poly[1], exponent), exponent, <<>>))

\* poly_1.to_string()
ToStringCall ==
    /\ Ready({1})
    /\ Returns(StrCall("to_string", to_string(poly[1])))

\* zero_polynomial(md)
ZeroPolynomial ==
    /\ Ready({})
    /\ \E md \in Moduli :
         Returns(Call("zero_polynomial", zero_polynomial(md), 0, 0, <<>>, <<>>, md, <<>>))

\* one_polynomial(md)
OnePolynomial ==
    /\ Ready({})
    /\ \E md \in Moduli :
         Returns(Call("one_polynomial", one_polynomial(md), 0, 0, <<>>, <<>>, md, <<>>))

\* add_poly(&poly_1, &zero_polynomial(poly_1.modulus)): the argument is
\* evaluated first
AddZero ==
    /\ Ready({1})
    /\ LET z == zero_polynomial(poly[1].modulus) IN
       Returns(PolyCall("add_zero",
                        IF z.kind = "Ok" THEN add_poly(poly[1], z.poly) ELSE z,
                        0, <<>>))

\* multiply_poly(&poly_1, &one_polynomial(poly_1.modulus))
MultiplyOne ==
    /\ Ready({1})
    /\ LET o == one_polynomial(poly[1].modulus) IN
       Returns(PolyCall("multiply_one",
                        IF o.kind = "Ok" THEN multiply_poly(poly[1], o.poly) ELSE o,
                        0, <<>>))

Next ==
    \/ New
    \/ Coefficient
    \/ Deg
    \/ Scale
    \/ AdditiveInverse
    \/ AddPoly
    \/ SubtractPoly
    \/ MultiplyPoly
    \/ SumOfPolys
    \/ ProductOfPolys
    \/ PolyPower
    \/ ToStringCall
    \/ ZeroPolynomial
    \/ OnePolynomial
    \/ AddZero
    \/ MultiplyOne
    \/ Forget

Spec == Init /\ [][Next]_vars

\* ------------------------------------------- the program on permutations
InitPerm == Init

\* the caller is between two statements
PermIdle == ~aborted /\ ret.op = "none"

\* a call on permutations returns or panics
PermReturns(op, arg, s, out) ==
    /\ ret' = Ret(op, arg, s, out, to_cycle_form_entry)
    /\ aborted' = (out.kind = "Panic")
    /\ UNCHANGED <<poly, built, res, vector>>

\* the statement of the last call ends
PermForget ==
    /\ ~aborted
    /\ ret.op # "none"
    /\ ret.op = "to_cycle_form" => ret.loc.pc = "done"
    /\ ret' = NoRet
    /\ UNCHANGED <<poly, built, res, aborted, sigma, vector>>

\* let sigma = Permutation::new(vec)
PermutationNew ==
    /\ PermIdle
    /\ sigma = <<>>
    /\ \E v \in ImageVecs :
         LET r == Permutation_new(v) IN
         /\ PermReturns("new", v, 0, r)
         /\ sigma' = IF r.kind = "Ok" THEN r.images ELSE sigma

\* identity(n)
Identity ==
    /\ PermIdle
    /\ sigma = <<>>
    /\ \E n \in 0..MaxN :
         /\ PermReturns("identity", <<>>, n, identity(n))
         /\ UNCHANGED sigma

\* transposition(n, i, j)
Transposition ==
    /\ PermIdle
    /\ sigma = <<>>
    /\ \E n \in 0..MaxN, i \in 0..(MaxN + 1), j \in 0..(MaxN + 1) :
         /\ PermReturns("transposition", <<i, j>>, n, transposition(n, i, j))
         /\ UNCHANGED sigma

\* sigma.inverse()
Inverse ==
    /\ PermIdle
    /\ sigma # <<>>
    /\ PermReturns("inverse", <<>>, 0, inverse(sigma))
    /\ UNCHANGED sigma

\* the permutations that Permutation::new returns
ValidPermutations == {v \in ImageVecs : Permutation_new(v).kind = "Ok"}

\* compose(&sigma, &tau) for a second permutation tau
Compose ==
    /\ PermIdle
    /\ sigma # <<>>
    /\ \E tau \in ValidPermutations :
         /\ PermReturns("compose", tau, 0, compose(sigma, tau))
         /\ UNCHANGED sigma

\* a step of to_cycle_form moves the locals to l
CycleMoves(l) ==
    /\ ret' = [ret EXCEPT !.loc = l]
    /\ aborted' = (l.pc = "panic")
    /\ UNCHANGED <<poly, built, res, sigma, vector>>

\* sigma.to_cycle_form() is entered
ToCycleForm ==
    /\ PermIdle
    /\ sigma # <<>>
    /\ ret' = Ret("to_cycle_form", <<>>, 0, POk(<<>>), to_cycle_form_entry)
    /\ UNCHANGED <<poly, built, res, aborted, sigma, vector>>

\* to_cycle_form, the head of the for loop
CycleFor ==
    /\ ~aborted
    /\ ret.op = "to_cycle_form"
    /\ ret.loc.pc = "for"
    /\ CycleMoves(to_cycle_form_for(ret.loc, sigma))

\* to_cycle_form, one test of the while loop.  A walk of more than
\* MaxN + 1 elements is cut off here.
CycleWhile ==
    /\ ~aborted
    /\ ret.op = "to_cycle_form"
    /\ ret.loc.pc = "while"
    /\ Len(ret.loc.current_cycle_elements) <= MaxN + 1
    /\ CycleMoves(to_cycle_form_while(ret.loc, sigma))

NextPerm ==
    \/ PermutationNew
    \/ Identity
    \/ Transposition
    \/ Inverse
    \/ Compose
    \/ ToCycleForm
    \/ CycleFor
    \/ CycleWhile
    \/ PermForget

SpecPerm == InitPerm /\ [][NextPerm]_vars

\* a call that has been entered keeps running: the steps of to_cycle_form
\* are taken as long as one is possible
SpecPermFair == SpecPerm /\ WF_vars(CycleFor \/ CycleWhile)

\* ---------------------------------------------- the program on vectors
\* let mut vector = vec![...]
InitSort ==
    /\ poly = [i \in 1..2 |-> NoPoly]
    /\ built = {}
    /\ res = NoCall
    /\ aborted = FALSE
    /\ sigma = <<>>
    /\ vector \in SortVecs
    /\ ret = NoRet

\* a sorting function returns or panics; arg is the vector as it was handed
\* over.  The calls follow one another on the caller's vector; ret keeps the
\* last one.
SortReturns(op, s, out) ==
    /\ ret' = Ret(op, vector, s, out, to_cycle_form_entry)
    /\ aborted' = (out.kind = "Panic")
    /\ UNCHANGED <<poly, built, res, sigma>>

\* quicksort(&vector)
Quicksort ==
    /\ ~aborted
    /\ SortReturns("quicksort", 0, SOk(quicksort(vector)))
    /\ UNCHANGED vector

\* merge_sort(&vector)
MergeSort ==
    /\ ~aborted
    /\ SortReturns("merge_sort", 0, merge_sort(vector))
    /\ UNCHANGED vector

\* insertion_sort(&mut vector): the caller's vector is sorted in place
InsertionSort ==
    /\ ~aborted
    /\ SortReturns("insertion_sort", 0, SOk(insertion_sort(vector)))
    /\ vector' = insertion_sort(vector)

\* counting_sort(&vector, s), in either build
CountingSort ==
    /\ ~aborted
    /\ \E s \in 0..MaxU32, wraps \in BOOLEAN :
         /\ SortReturns("counting_sort", s, counting_sort(vector, s, wraps))
         /\ UNCHANGED vector

NextSort ==
    \/ Quicksort
    \/ MergeSort
    \/ InsertionSort
    \/ CountingSort

SpecSort == InitSort /\ [][NextSort]_vars

\* ------------------------------------------------------------ type check
TypeOK ==
    /\ built \subseteq {1, 2}
    /\ aborted \in BOOLEAN
    /\ res.out.kind \in {"Ok", "Err", "Panic"}

\* ------------------------------------------------- vocabulary of the claims
Abs(a) == IF a >= 0 THEN a ELSE 0 - a

\* x is zero in the ring of modulus m: x = 0, resp. x is a multiple of q
IsZeroIn(x, m) ==
    IF m.tag = "None" THEN x = 0
    ELSE \E k \in (0 - Abs(x))..Abs(x) : x = k * m.q

\* p has no trailing zero term
Normalized(p) ==
    \/ Len(p.coefficients) = 0
    \/ ~IsZeroIn(p.coefficients[Len(p.coefficients)], p.modulus)

\* the largest 0-based index of c whose entry is not zero in the ring of
\* modulus m; -1 when there is none
TopIndex(c, m) ==
    LET nz == {i \in 1..Len(c) : ~IsZeroIn(c[i], m)} IN
    IF nz = {} THEN 0 - 1
    ELSE (CHOOSE i \in nz : \A j \in nz : j <= i) - 1

\* c without its trailing zero terms
Trimmed(c, m) == SubSeq(c, 1, TopIndex(c, m) + 1)

\* r is the truncating remainder of a by q > 0
IsTruncRem(r, a, q) ==
    /\ \E k \in (0 - Abs(a))..Abs(a) : a = k * q + r
    /\ Abs(r) < q
    /\ (a >= 0 => r >= 0)
    /\ (a <= 0 => r <= 0)

\* the sum of the entries of a sequence of integers
RECURSIVE SumSeq(_)
SumSeq(t) == IF Len(t) = 0 THEN 0 ELSE SumSeq(Pop(t)) + t[Len(t)]

\* the coefficients of the product of the polynomials with coefficients a
\* and b: entry k (0-based) is the sum over i + j = k of a_i * b_j
Convolution(a, b) ==
    IF Len(a) = 0 \/ Len(b) = 0 THEN <<>>
    ELSE [k \in 1..(Len(a) + Len(b) - 1) |->
            SumSeq([i \in 1..Len(a) |->
                      IF (k + 1 - i) \in 1..Len(b) THEN a[i] * b[k + 1 - i] ELSE 0])]

\* ------------------------------------------------------------------ claims
\* C1: every IntPoly value that exists, a bound polynomial or the value a
\* call returned, has a coefficient vector that is empty or ends in an
\* element that is not zero in its ring.
C1_NoTrailingZero ==
    /\ \A i \in built : Normalized(poly[i])
    /\ (res.out.kind = "Ok" => Normalized(res.out.poly))

\* C1 witness: add_poly over Z/qZ returned a polynomial shorter than its
\* first operand, so trailing multiples of q were cut from the sum.
C1_Witness ==
    /\ res.op = "add_poly"
    /\ res.out.kind = "Ok"
    /\ res.out.poly.modulus.tag = "Some"
    /\ Len(res.out.poly.coefficients) < Len(poly[1].coefficients)

\* C2: IntPoly::new never panics, and returns the zero polynomial when every
\* element of the sequence is zero in the ring.
C2_NewNeverPanics ==
    res.op = "new" =>
        /\ res.out.kind = "Ok"
        /\ (TopIndex(res.vecIn, res.mdIn) = 0 - 1 => res.out.poly = Poly(<<>>, res.mdIn))

\* C3: IntPoly::new(c, m).deg() is the largest index of c whose entry is not
\* zero in the ring, -1 when there is none, and the stored coefficients are
\* c up to that index.
C3_DegIsTopIndex ==
    res.op = "new" =>
        /\ res.out.kind = "Ok"
        /\ deg(res.out.poly) = TopIndex(res.vecIn, res.mdIn)
        /\ res.out.poly.coefficients = Trimmed(res.vecIn, res.mdIn)

C5_StandardRepresentative ==
    (res.op = "coefficient" /\ poly[1].modulus.tag = "Some") =>
        res.val \in 0..(poly[1].modulus.q - 1)

\* C6: add_poly and multiply_poly return an error exactly when the moduli
\* of their operands differ, and the error carries the two moduli in
\* argument order.
C6_ErrIffMismatch ==
    res.op \in {"add_poly", "multiply_poly"} =>
        /\ (res.out.kind = "Err") <=> (poly[1].modulus # poly[2].modulus)
        /\ (res.out.kind = "Err" => res.out.err = <<poly[1].modulus, poly[2].modulus>>)

\* C6 witness: add_poly returned the error for two rings Z/xZ and Z/yZ
\* with x # y.
C6_Witness ==
    /\ res.op = "add_poly"
    /\ res.out.kind = "Err"
    /\ poly[1].modulus.tag = "Some"
    /\ poly[2].modulus.tag = "Some"
    /\ poly[1].modulus.q # poly[2].modulus.q

\* C7: for operands of one modulus add_poly returns Ok of the coefficient-wise
\* sum of coefficient(i), without its trailing zero terms.
C7_AddIsTrimmedSum ==
    (res.op = "add_poly" /\ poly[1].modulus = poly[2].modulus) =>
        LET m == poly[1].modulus
            n == Max(Len(poly[1].coefficients), Len(poly[2].coefficients))
            s == [i \in 1..n |-> coefficient(poly[1], i - 1) + coefficient(poly[2], i - 1)]
        IN  res.out = Ok(Poly(Trimmed(s, m), m))

\* C8: add_poly(p, zero_polynomial(p.modulus)) returns Ok(p).
C8_AdditiveIdentity ==
    res.op = "add_zero" => res.out = Ok(poly[1])

\* C9: multiply_poly(p, one_polynomial(p.modulus)) returns Ok(p).
C9_MultiplicativeIdentity ==
    res.op = "multiply_one" => res.out = Ok(poly[1])

\* C10: for operands of one modulus multiply_poly(p, q) and
\* multiply_poly(q, p) return equal results.
C10_MultiplyCommutes ==
    (res.op = "multiply_poly" /\ poly[1].modulus = poly[2].modulus) =>
        /\ res.out.kind = "Ok"
        /\ multiply_poly(poly[2], poly[1]) = res.out

\* C11: over Z multiply_poly returns Ok of the true product: coefficient k
\* is the sum over i + j = k of p.coefficient(i) * q.coefficient(j), and
\* trailing zeros are cut.
C11_MultiplyIsProduct ==
    (res.op = "multiply_poly" /\ poly[1].modulus = None /\ poly[2].modulus = None) =>
        res.out = Ok(Poly(Trimmed(Convolution(poly[1].coefficients,
                                              poly[2].coefficients), None), None))

\* C11 witness: two integer polynomials of two coefficients each were
\* multiplied, and the product has three coefficients.
C11_Witness ==
    /\ res.op = "multiply_poly"
    /\ poly[1].modulus = None
    /\ poly[2].modulus = None
    /\ Len(poly[1].coefficients) = 2
    /\ Len(poly[2].coefficients) = 2
    /\ res.out.kind = "Ok"
    /\ Len(res.out.poly.coefficients) = 3

\* C12: multiply_poly with a zero polynomial as first operand, or as second
\* operand, and an operand of the same modulus returns Ok of the zero
\* polynomial.
C12_MultiplyByZero ==
    (/\ res.op = "multiply_poly"
     /\ poly[1].modulus = poly[2].modulus
     /\ (deg(poly[1]) = 0 - 1 \/ deg(poly[2]) = 0 - 1)) =>
        res.out = Ok(Poly(<<>>, poly[1].modulus))

\* C12 witness: the first operand of multiply_poly was the zero polynomial
\* and the second was not, so the loop over the partial products was empty.
C12_Witness ==
    /\ res.op = "multiply_poly"
    /\ poly[1].modulus = poly[2].modulus
    /\ Len(poly[1].coefficients) = 0
    /\ Len(poly[2].coefficients) > 0
    /\ res.out.kind = "Ok"

\* C13: subtract_poly(p, p) returns Ok of the zero polynomial with the
\* modulus of p.
C13_SubtractSelf ==
    (res.op = "subtract_poly" /\ poly[1] = poly[2]) =>
        res.out = Ok(Poly(<<>>, poly[1].modulus))

\* C14: p.scale(0) returns the zero polynomial with the modulus of p, whose
\* degree is -1.
C14_ScaleByZero ==
    (res.op = "scale" /\ res.arg = 0) =>
        /\ res.out = Ok(Poly(<<>>, poly[1].modulus))
        /\ deg(res.out.poly) = 0 - 1

\* the moduli of the operands of the last call on one or more polynomials
OperandModuli ==
    IF res.op \in {"sum_of_polys", "product_of_polys"}
    THEN {poly[res.sel[k]].modulus : k \in 1..Len(res.sel)}
    ELSE {poly[i].modulus : i \in built}

\* C15: when the moduli of the operands of add_poly, subtract_poly,
\* multiply_poly, sum_of_polys or product_of_polys are not all equal, the
\* call returns Err(ModulusMismatchError) and does not panic.
C15_MismatchIsErr ==
    (/\ res.op \in {"add_poly", "subtract_poly", "multiply_poly",
                    "sum_of_polys", "product_of_polys"}
     /\ Cardinality(OperandModuli) > 1) =>
        res.out.kind = "Err"

\* the smallest index of the list whose modulus differs from that of the
\* first element; 0 when all moduli are equal
FirstMismatch(poly_vec) ==
    LET bad == {k \in 1..Len(poly_vec) : poly_vec[k].modulus # poly_vec[1].modulus}
    IN  IF bad = {} THEN 0 ELSE CHOOSE k \in bad : \A j \in bad : k <= j

\* C16: sum_of_polys on a list whose element k is the first with a modulus
\* other than that of the first element returns
\* Err(ModulusMismatchError(modulus of the first element, modulus of element
\* k)), whatever follows element k.
C16_SumStopsAtFirstMismatch ==
    (res.op = "sum_of_polys" /\ Len(res.sel) > 0) =>
        LET poly_vec == PolyVec(res.sel)
            k == FirstMismatch(poly_vec)
        IN  k > 0 => res.out = Err(poly_vec[1].modulus, poly_vec[k].modulus)

\* the list in reverse order
Reverse(t) == [k \in 1..Len(t) |-> t[Len(t) + 1 - k]]

\* the longest coefficient vector of a list of polynomials
RECURSIVE MaxLength(_)
MaxLength(poly_vec) ==
    IF Len(poly_vec) = 0 THEN 0
    ELSE Max(MaxLength(Pop(poly_vec)), Len(poly_vec[Len(poly_vec)].coefficients))

\* C17: sum_of_polys on a non-empty list of polynomials over Z returns Ok of
\* the polynomial whose coefficient i is the sum of coefficient(i) over the
\* list, trailing zeros cut; the list in reverse order gives the same.
C17_SumIsCoefficientwise ==
    (/\ res.op = "sum_of_polys"
     /\ Len(res.sel) > 0
     /\ \A k \in 1..Len(res.sel) : poly[res.sel[k]].modulus = None) =>
        LET poly_vec == PolyVec(res.sel)
            s == [i \in 1..MaxLength(poly_vec) |->
                    SumSeq([k \in 1..Len(poly_vec) |-> coefficient(poly_vec[k], i - 1)])]
        IN  /\ res.out = Ok(Poly(Trimmed(s, None), None))
            /\ sum_of_polys(Reverse(poly_vec)) = res.out

\* C17 witness: two different non-zero polynomials over Z were summed.
C17_Witness ==
    /\ res.op = "sum_of_polys"
    /\ Len(res.sel) = 2
    /\ res.sel[1] # res.sel[2]
    /\ poly[1].modulus = None
    /\ poly[2].modulus = None
    /\ poly[1] # poly[2]
    /\ Len(poly[1].coefficients) > 0
    /\ Len(poly[2].coefficients) > 0
    /\ res.out.kind = "Ok"

RECURSIVE ProductFrom(_, _, _)
ProductFrom(acc, poly_vec, k) ==
    IF k > Len(poly_vec) THEN acc
    ELSE ProductFrom(Convolution(acc, poly_vec[k].coefficients), poly_vec, k + 1)

\* C19: product_of_polys on a non-empty list of polynomials of one modulus
\* returns Ok; the value is the left fold of multiply_poly from the one
\* polynomial, and over Z it is the product of the list elements.
C19_ProductIsFold ==
    (/\ res.op = "product_of_polys"
     /\ Len(res.sel) > 0
     /\ \A k \in 1..Len(res.sel) : poly[res.sel[k]].modulus = poly[res.sel[1]].modulus) =>
        LET poly_vec == PolyVec(res.sel)
            m == poly_vec[1].modulus
        IN  /\ res.out.kind = "Ok"
            /\ res.out.poly.modulus = m
            /\ m = None =>
                 res.out.poly.coefficients = Trimmed(ProductFrom(<<1>>, poly_vec, 1), None)

\* C20: poly_power(p, 0) returns Ok of the one polynomial with the modulus
\* of p.
C20_PowerZero ==
    (res.op = "poly_power" /\ res.arg = 0) =>
        res.out = Ok(Poly(<<1>>, poly[1].modulus))

\* C20 witness: a polynomial over Z/qZ was taken to the power 0.
C20_Witness ==
    /\ res.op = "poly_power"
    /\ res.arg = 0
    /\ poly[1].modulus.tag = "Some"
    /\ res.out.kind = "Ok"

\* the coefficients of the e-fold product of the polynomial with
\* coefficients c with itself
RECURSIVE PowerOf(_, _)
PowerOf(c, e) == IF e = 0 THEN <<1>> ELSE Convolution(PowerOf(c, e - 1), c)

\* C21: for e >= 0 and Ok(r) = poly_power(p, e), poly_power(p, e + 1)
\* returns what multiply_poly(r, p) returns, an Ok; over Z it is the
\* (e + 1)-fold product of p with itself.
C21_PowerStep ==
    (res.op = "poly_power" /\ res.arg > 0) =>
        LET r == poly_power(poly[1], res.arg - 1) IN
        r.kind = "Ok" =>
            /\ res.out.kind = "Ok"
            /\ res.out = multiply_poly(r.poly, poly[1])
            /\ poly[1].modulus = None =>
                 res.out.poly.coefficients =
                     Trimmed(PowerOf(poly[1].coefficients, res.arg), None)

\* C22: IntPoly::new(c, m) returns a polynomial, and IntPoly::new on its
\* stored coefficients with the same m returns an equal polynomial.
C22_NewIdempotent ==
    res.op = "new" =>
        /\ res.out.kind = "Ok"
        /\ IntPoly_new(res.out.poly.coefficients, res.mdIn).out = res.out

\* the string "a_0X^0 + a_1X^1 + ... + a_nX^n" with one term per entry of c
RECURSIVE Rendered(_)
Rendered(c) ==
    IF Len(c) = 0 THEN ""
    ELSE IF Len(c) = 1 THEN monomial(c[1], 0)
    ELSE Rendered(Pop(c)) \o " + " \o monomial(c[Len(c)], Len(c) - 1)

\* C23: to_string returns "0" for the zero polynomial and otherwise one term
\* a_iX^i per stored coefficient, zero coefficients included, joined by
\* " + ".
C23_ToStringEveryTerm ==
    res.op = "to_string" =>
        res.str = IF Len(poly[1].coefficients) = 0 THEN "0"
                  ELSE Rendered(poly[1].coefficients)

\* v has no value twice and all its values in 1 .. n
UniqueIn1ToN(v, n) ==
    /\ \A k \in 1..Len(v) : v[k] \in 1..n
    /\ \A k \in 1..Len(v) : \A h \in 1..Len(v) : v[k] = v[h] => k = h

C25_TranspositionOutside ==
    (ret.op = "transposition" /\ ret.s >= 1) =>
        LET i == ret.arg[1]
            j == ret.arg[2]
            inside == i \in 1..ret.s /\ j \in 1..ret.s
        IN  /\ ~inside => ret.out.kind = "Err"
            /\ ret.out.kind = "Ok" => inside

\* the places <<c, k>> of the cycles cs that hold x
PlacesOf(x, cs) ==
    {p \in (1..Len(cs)) \X (1..MaxN) :
        p[2] <= Len(cs[p[1]]) /\ cs[p[1]][p[2]] = x}

\* the cycles cs are the cycle form of the permutation with the given images
IsCycleForm(cs, images) ==
    /\ \A x \in 1..Len(images) : Cardinality(PlacesOf(x, cs)) = 1
    /\ \A c \in 1..Len(cs) :
         /\ Len(cs[c]) \in 1..Len(images)
         /\ \A k \in 1..(Len(cs[c]) - 1) : cs[c][k + 1] = images[cs[c][k]]
         /\ images[cs[c][Len(cs[c])]] = cs[c][1]
         /\ \A k \in 1..Len(cs[c]) : cs[c][1] <= cs[c][k]
    /\ \A c \in 1..(Len(cs) - 1) : cs[c][1] < cs[c + 1][1]

\* to_cycle_form has not panicked, the cycle it is walking has at most n
\* elements, and the cycles it returns are the cycle form of sigma
CycleFormSafe ==
    ret.op = "to_cycle_form" =>
        /\ ret.loc.pc # "panic"
        /\ Len(ret.loc.current_cycle_elements) <= Len(sigma)
        /\ ret.loc.pc = "done" => IsCycleForm(ret.loc.cycles, sigma)

\* C26: for every permutation sigma, to_cycle_form terminates, and returns
\* cycles in which every element of 1 .. n appears exactly once, consecutive
\* elements are related by sigma, each cycle starts with its smallest
\* element, and the cycles are ordered by that element.
C26_CycleFormTerminates ==
    /\ []CycleFormSafe
    /\ (ret.op = "to_cycle_form") ~> (ret.op = "to_cycle_form" /\ ret.loc.pc = "done")

\* C26 witness: to_cycle_form returned a cycle of three elements.
C26_Witness ==
    /\ ret.op = "to_cycle_form"
    /\ ret.loc.pc = "done"
    /\ Len(ret.loc.cycles) = 1
    /\ Len(ret.loc.cycles[1]) = 3

\* v is in non-decreasing order
IsSorted(v) == \A k \in 1..(Len(v) - 1) : v[k] <= v[k + 1]

\* v and w hold the same elements with the same multiplicities
SameElements(v, w) ==
    /\ Len(v) = Len(w)
    /\ \A x \in 0..MaxU32 :
         Cardinality({k \in 1..Len(v) : v[k] = x}) = Cardinality({k \in 1..Len(w) : w[k] = x})

\* C27: quicksort, merge_sort and insertion_sort produce the elements of a
\* in non-decreasing order with the same multiplicities; counting_sort(a, s)
\* returns Ok of that vector when every element is <= s, and
\* Err(SortingInstanceError) when some element is > s.
C27_SortsAgree ==
    /\ ret.op \in {"quicksort", "merge_sort", "insertion_sort"} =>
         /\ ret.out.kind = "Ok"
         /\ IsSorted(ret.out.vec)
         /\ SameElements(ret.out.vec, ret.arg)
    /\ ret.op = "insertion_sort" => vector = ret.out.vec
    /\ ret.op = "counting_sort" =>
         IF \E k \in 1..Len(ret.arg) : ret.arg[k] > ret.s
         THEN ret.out = SErr
         ELSE /\ ret.out.kind = "Ok"
              /\ IsSorted(ret.out.vec)
              /\ SameElements(ret.out.vec, ret.arg)

\* C28: sigma.inverse() does not panic, compose(sigma, sigma.inverse()) and
\* compose(sigma.inverse(), sigma) are identity(n), and compose(sigma, tau)
\* maps x to sigma(tau(x)).
C28_InverseTwoSided ==
    /\ ret.op = "inverse" =>
         /\ ret.out.kind = "Ok"
         /\ compose(sigma, ret.out.images) = identity(Len(sigma))
         /\ compose(ret.out.images, sigma) = identity(Len(sigma))
    /\ (ret.op = "compose" /\ Len(ret.arg) = Len(sigma)) =>
         ret.out = POk([x \in 1..Len(sigma) |-> sigma[ret.arg[x]]])

\* C28 witness: the inverse of a permutation that is not its own inverse was
\* computed.
C28_Witness ==
    /\ ret.op = "inverse"
    /\ ret.out.kind = "Ok"
    /\ ret.out.images # sigma

\* C29: when IntPoly::new(&mut v, m) returns, the caller's v has lost exactly
\* its trailing zero terms and equals the stored coefficient vector; every
\* other operation leaves the bound polynomials as they are.
C29_NewTrimsInPlace ==
    [][/\ (res'.op = "new" /\ res'.out.kind = "Ok") =>
            /\ res'.vecOut = res'.out.poly.coefficients
            /\ res'.vecOut = Trimmed(res'.vecIn, res'.mdIn)
       /\ res'.op \notin {"new", "none"} => (poly' = poly /\ built' = built)]_vars

\* C29 witness: IntPoly::new over Z/qZ returned and the caller's vector is
\* shorter than it was.
C29_Witness ==
    /\ res.op = "new"
    /\ res.out.kind = "Ok"
    /\ res.mdIn.tag = "Some"
    /\ Len(res.vecOut) < Len(res.vecIn)

\* the modulus of the first operand of the last call
FirstModulus ==
    IF res.op \in {"sum_of_polys", "product_of_polys"}
    THEN poly[res.sel[1]].modulus
    ELSE poly[1].modulus

\* C30: a polynomial returned by scale, additive_inverse, add_poly,
\* subtract_poly, multiply_poly, poly_power, or by sum_of_polys or
\* product_of_polys on a non-empty list, has the modulus of the first
\* operand; poly_power never returns Err.
C30_ModulusClosure ==
    /\ (/\ res.op \in {"scale", "additive_inverse", "add_poly", "subtract_poly",
                       "multiply_poly", "poly_power", "sum_of_polys",
                       "product_of_polys"}
        /\ res.op \in {"sum_of_polys", "product_of_polys"} => Len(res.sel) > 0
        /\ res.out.kind = "Ok") =>
           res.out.poly.modulus = FirstModulus
    /\ res.op = "poly_power" => res.out.kind # "Err"

\* C30 witness: scale returned a polynomial over Z/qZ.
C30_Witness ==
    /\ res.op = "scale"
    /\ res.out.kind = "Ok"
    /\ poly[1].modulus.tag = "Some"

====
